---------------------------- MODULE Spec2Model ----------------------------
(***************************************************************************)
(* A model of the Monkey interpreter front end: the token package, the     *)
(* lexer, the Pratt parser (parser.go), the textual reconstruction of the  *)
(* AST (ast.go) and the REPL loop (repl.Start).                            *)
(*                                                                         *)
(* Source text, token literals and rendered ASTs are TLA+ strings; an      *)
(* int64 is the string of its decimal digits, because the values at the    *)
(* edge of the 64-bit range do not fit the integers of the model checker.  *)
(***************************************************************************)
EXTENDS Integers, Sequences, FiniteSets, TLC

VARIABLES
    pc,         \* position of repl.Start: "loop" (top of the for) or "done" (returned)
    turn,       \* number of lines scanned so far
    line,       \* the text of the last line scanned
    scanned,    \* what the last scanner.Scan() gave: "not yet", "line" or "end"
    p,          \* the parser built for the last line (parser.Parser)
    program,    \* the *ast.Program returned by the last ParseProgram
    env,        \* the session environment: its identity and its bindings
    envCount,   \* number of calls of object.NewEnvironment so far
    evalCalls,  \* number of calls of evaluator.Eval so far
    evalEnv,    \* identity of the environment handed to the last Eval (0: none yet)
    envAtScan,  \* the environment as it was when the last line was scanned
    callsAtScan,\* evalCalls as it was when the last line was scanned
    out,        \* what the last turn wrote: "none", "parse errors", "result" or "nothing"
    last,       \* the last parser operation applied, with the parser before it
    call        \* a method call on an AST node or a runtime object, and its progress

vars == <<pc, turn, line, scanned, p, program, env, envCount, evalCalls, evalEnv,
          envAtScan, callsAtScan, out, last, call>>

-----------------------------------------------------------------------------
(* package token                                                           *)

ILLEGAL == "ILLEGAL"
EOF == ""
IDENT == "IDENT"
INT == "INT"
ASSIGN == "="
PLUS == "+"
MINUS == "-"
BANG == "!"
ASTERISK == "*"
SLASH == "/"
LT == "<"
GT == ">"
EQ == "=="
NOT_EQ == "!="
COMMA == ","
SEMICOLON == ";"
LPAREN == "("
RPAREN == ")"
LBRACE == "{"
RBRACE == "}"
FUNCTION == "FUNCTION"
LET_ == "LET"
TRUE_ == "TRUE"
FALSE_ == "FALSE"
IF_ == "IF"
ELSE_ == "ELSE"
RETURN == "RETURN"
STRING_ == "STRING"

TokenTypes ==
    {ILLEGAL, EOF, IDENT, INT, ASSIGN, PLUS, MINUS, BANG, ASTERISK, SLASH, LT, GT,
     EQ, NOT_EQ, COMMA, SEMICOLON, LPAREN, RPAREN, LBRACE, RBRACE, FUNCTION, LET_,
     TRUE_, FALSE_, IF_, ELSE_, RETURN, STRING_}

Token(type, literal) == [Type |-> type, Literal |-> literal]

\* The zero value of token.Token, held by a Parser before its first nextToken.
ZeroToken == Token("", "")

LookupIdent(ident) ==
    CASE ident = "fn" -> FUNCTION
      [] ident = "let" -> LET_
      [] ident = "true" -> TRUE_
      [] ident = "false" -> FALSE_
      [] ident = "if" -> IF_
      [] ident = "else" -> ELSE_
      [] ident = "return" -> RETURN
      [] OTHER -> IDENT

-----------------------------------------------------------------------------
(* package lexer: a single cursor over the input string                    *)

Letters ==
    {"a", "b", "c", "d", "e", "f", "g", "h", "i", "j", "k", "l", "m", "n", "o",
     "p", "q", "r", "s", "t", "u", "v", "w", "x", "y", "z",
     "A", "B", "C", "D", "E", "F", "G", "H", "I", "J", "K", "L", "M", "N", "O",
     "P", "Q", "R", "S", "T", "U", "V", "W", "X", "Y", "Z", "_"}

Digits == {"0", "1", "2", "3", "4", "5", "6", "7", "8", "9"}

Whitespace == {" ", "\t", "\n", "\r"}

\* The byte at index i, or "" past the end of the input.
CharAt(s, i) == IF i >= 1 /\ i <= Len(s) THEN SubSeq(s, i, i) ELSE ""

RECURSIVE RunEnd(_, _, _)
\* The first index at or after i whose byte is not in class (Len(s) + 1 if none).
RunEnd(s, i, class) ==
    IF i <= Len(s) /\ CharAt(s, i) \in class THEN RunEnd(s, i + 1, class) ELSE i

RECURSIVE QuoteEnd(_, _)
\* The index of the next '"' at or after i, or Len(s) + 1 at the end of the input.
QuoteEnd(s, i) ==
    IF i <= Len(s) /\ CharAt(s, i) # "\"" THEN QuoteEnd(s, i + 1) ELSE i

LexerNew(input) == [input |-> input, position |-> 1]

\* One token from the cursor on, and the lexer with the cursor behind it.
NextToken(l) ==
    LET s == l.input
        i == RunEnd(s, l.position, Whitespace)
        ch == CharAt(s, i)
        one(type) == [tok |-> Token(type, ch), l |-> [l EXCEPT !.position = i + 1]]
    IN  CASE i > Len(s) ->
               [tok |-> Token(EOF, ""), l |-> [l EXCEPT !.position = i]]
          [] ch = "=" ->
               IF CharAt(s, i + 1) = "="
               THEN [tok |-> Token(EQ, "=="), l |-> [l EXCEPT !.position = i + 2]]
               ELSE one(ASSIGN)
          [] ch = "!" ->
               IF CharAt(s, i + 1) = "="
               THEN [tok |-> Token(NOT_EQ, "!="), l |-> [l EXCEPT !.position = i + 2]]
               ELSE one(BANG)
          [] ch \in {"+", "-", "*", "/", "<", ">", ",", ";", "(", ")", "{", "}"} ->
               one(ch)
          [] ch = "\"" ->
               LET j == QuoteEnd(s, i + 1)
               IN  [tok |-> Token(STRING_, SubSeq(s, i + 1, j - 1)),
                    l |-> [l EXCEPT !.position = j + 1]]
          [] ch \in Letters ->
               LET j == RunEnd(s, i, Letters \cup Digits)
                   w == SubSeq(s, i, j - 1)
               IN  [tok |-> Token(LookupIdent(w), w), l |-> [l EXCEPT !.position = j]]
          [] ch \in Digits ->
               LET j == RunEnd(s, i, Digits)
               IN  [tok |-> Token(INT, SubSeq(s, i, j - 1)),
                    l |-> [l EXCEPT !.position = j]]
          [] OTHER -> one(ILLEGAL)

-----------------------------------------------------------------------------
(* package ast: nodes.  A node is a record with a kind; a nil pointer or a *)
(* nil interface is a record of kind "nil" that remembers its static type. *)

\* A nil pointer of the given pointer type; stored in an interface it is an
\* interface value that is NOT equal to nil (only NilInterface is).
NilOf(type) == [kind |-> "nil", type |-> type]

\* The nil interface value (a `return nil` from a function returning
\* ast.Expression, or the zero value of a field of interface type).
NilInterface == NilOf("nil")

\* The Go test `x != nil` on a value of interface type, negated.
InterfaceIsNil(n) == n.kind = "nil" /\ n.type = "nil"

\* Nothing can be read through n: calling a method that reads a field panics.
IsNil(n) == n.kind = "nil"

\* A slice: nil, or a (possibly empty) list of elements.
NilSlice == [isNil |-> TRUE, elems |-> <<>>]
Slice(elems) == [isNil |-> FALSE, elems |-> elems]

Identifier(tok) == [kind |-> "Identifier", Token |-> tok, Value |-> tok.Literal]

-----------------------------------------------------------------------------
(* package parser                                                          *)

LOWEST == 1
EQUALS == 2
LESSGREATER == 3
SUM == 4
PRODUCT == 5
PREFIX == 6
CALL == 7

\* The table `precedences`, with LOWEST for the kinds it does not hold.
precedences(type) ==
    CASE type \in {EQ, NOT_EQ} -> EQUALS
      [] type \in {LT, GT} -> LESSGREATER
      [] type \in {PLUS, MINUS} -> SUM
      [] type \in {SLASH, ASTERISK} -> PRODUCT
      [] type = LPAREN -> CALL
      [] OTHER -> LOWEST

peekPrecedence(q) == precedences(q.peekToken.Type)

curPrecedence(q) == precedences(q.curToken.Type)

\* The kinds registered by New with registerPrefix / registerInfix.
PrefixKinds == {IDENT, INT, BANG, MINUS, TRUE_, FALSE_, LPAREN, IF_, FUNCTION, STRING_}

InfixKinds == {PLUS, MINUS, SLASH, ASTERISK, EQ, NOT_EQ, LT, GT, LPAREN}

nextToken(q) ==
    LET r == NextToken(q.l)
    IN  [q EXCEPT !.curToken = q.peekToken, !.peekToken = r.tok, !.l = r.l]

\* New as it would be with one p.nextToken() in place of two.
NewPrimedOnce(l) ==
    nextToken([l |-> l, curToken |-> ZeroToken, peekToken |-> ZeroToken,
               errors |-> <<>>])

New(l) ==
    nextToken(nextToken([l |-> l, curToken |-> ZeroToken, peekToken |-> ZeroToken,
                         errors |-> <<>>]))

peekTokenIs(q, t) == q.peekToken.Type = t

curTokenIs(q, t) == q.curToken.Type = t

Errors(q) == q.errors

peekError(q, t) ==
    [q EXCEPT !.errors = Append(@, "expected next token to be " \o t \o ", got "
                                    \o q.peekToken.Type \o " instead.")]

\* noPrefixParseFnError as it would be if it recorded nothing.
noPrefixParseFnErrorSilent(q, t) == q

noPrefixParseFnError(q, t) ==
    [q EXCEPT !.errors = Append(@, "no prefix parse function for " \o t \o " found")]

\* expectPeek as it would be if a mismatch were recorded and then skipped.
expectPeekSkipping(q, t) ==
    IF peekTokenIs(q, t)
    THEN [p |-> nextToken(q), ok |-> TRUE]
    ELSE [p |-> nextToken(peekError(q, t)), ok |-> FALSE]

\* The parser after the call and the boolean the call returns.
expectPeek(q, t) ==
    IF peekTokenIs(q, t)
    THEN [p |-> nextToken(q), ok |-> TRUE]
    ELSE [p |-> peekError(q, t), ok |-> FALSE]

-----------------------------------------------------------------------------
(* strconv.ParseInt(s, 0, 64) on a run of ASCII digits.  Natural numbers   *)
(* are sequences of decimal digits, most significant first, without        *)
(* leading zeros (zero is <<0>>).                                          *)

DigitVal(c) ==
    CASE c = "0" -> 0 [] c = "1" -> 1 [] c = "2" -> 2 [] c = "3" -> 3 [] c = "4" -> 4
      [] c = "5" -> 5 [] c = "6" -> 6 [] c = "7" -> 7 [] c = "8" -> 8 [] c = "9" -> 9

DigitChar(d) == SubSeq("0123456789", d + 1, d + 1)

RECURSIVE Canon(_)
Canon(n) == IF Len(n) > 1 /\ n[1] = 0 THEN Canon(Tail(n)) ELSE n

RECURSIVE MulAddFrom(_, _, _, _)
\* The digits of n[1..i] * base + carry.
MulAddFrom(n, i, base, carry) ==
    IF i = 0
    THEN <<carry>>
    ELSE LET v == n[i] * base + carry
         IN  MulAddFrom(n, i - 1, base, v \div 10) \o <<v % 10>>

MulAdd(n, base, d) == Canon(MulAddFrom(n, Len(n), base, d))

RECURSIVE LexLess(_, _, _)
LexLess(a, b, i) ==
    i <= Len(a) /\ (a[i] < b[i] \/ (a[i] = b[i] /\ LexLess(a, b, i + 1)))

\* a < b, for canonical digit sequences.
BigLess(a, b) == Len(a) < Len(b) \/ (Len(a) = Len(b) /\ LexLess(a, b, 1))

RECURSIVE DigitsOfString(_)
DigitsOfString(s) ==
    IF Len(s) = 0 THEN <<>>
    ELSE <<DigitVal(SubSeq(s, 1, 1))>> \o DigitsOfString(SubSeq(s, 2, Len(s)))

RECURSIVE StringOfDigits(_)
StringOfDigits(n) ==
    IF Len(n) = 0 THEN "" ELSE DigitChar(n[1]) \o StringOfDigits(Tail(n))

\* 1<<64 - 1 and 1<<63 - 1
MaxUint64 == DigitsOfString("18446744073709551615")
MaxInt64 == DigitsOfString("9223372036854775807")

RECURSIVE ParseUintFrom(_, _, _, _)
\* The digit loop of strconv.ParseUint: left to right, stopping at the first
\* byte that is no digit of the base (ErrSyntax) or at the first overflow of
\* 64 bits (ErrRange).
ParseUintFrom(s, i, base, n) ==
    IF i > Len(s)
    THEN [n |-> n, err |-> "nil"]
    ELSE LET d == DigitVal(CharAt(s, i))
             n1 == MulAdd(n, base, d)
         IN  IF d >= base THEN [n |-> <<0>>, err |-> "syntax"]
             ELSE IF BigLess(MaxUint64, n1) THEN [n |-> MaxUint64, err |-> "range"]
             ELSE ParseUintFrom(s, i + 1, base, n1)

\* What ParseInt makes of the result un of ParseUint: a value of 1<<63 or more
\* does not fit an int64.
ParseIntResult(un) ==
    IF un.err = "syntax" THEN [value |-> "0", err |-> "syntax"]
    ELSE IF un.err = "range" \/ BigLess(MaxInt64, un.n)
         THEN [value |-> StringOfDigits(MaxInt64), err |-> "range"]
         ELSE [value |-> StringOfDigits(un.n), err |-> "nil"]

\* strconv.ParseInt(s, 0, 64) for s a run of digits: base 0 takes the base
\* from the prefix, and a leading "0" not followed by b, o or x selects base 8.
\* value is the int64 returned (in decimal), err is "nil", "syntax" or "range".
ParseInt(s) ==
    IF Len(s) = 0 THEN [value |-> "0", err |-> "syntax"]
    ELSE ParseIntResult(IF CharAt(s, 1) = "0"
                        THEN ParseUintFrom(s, 2, 8, <<0>>)
                        ELSE ParseUintFrom(s, 1, 10, <<0>>))

-----------------------------------------------------------------------------
(* The parse functions.  Each takes the parser and gives the parser after  *)
(* the call (p) and the node returned (n).                                 *)

\* A local variable of the source: v is computed once and named in F.
Bind(v, F(_)) == F(v)

RECURSIVE parseExpression(_, _)
RECURSIVE parseStatement(_)
RECURSIVE parseBlockStatement(_)

parseStringLiteral(q) ==
    [p |-> q,
     n |-> [kind |-> "StringLiteral", Token |-> q.curToken, Value |-> q.curToken.Literal]]

parseIdentifier(q) == [p |-> q, n |-> Identifier(q.curToken)]

parseBoolean(q) ==
    [p |-> q,
     n |-> [kind |-> "Boolean", Token |-> q.curToken, Value |-> curTokenIs(q, TRUE_)]]

\* lit.Value is set to what ParseInt returned whether or not it failed.
parseIntegerLiteral(q) ==
    Bind(ParseInt(q.curToken.Literal), LAMBDA r :
        [p |-> IF r.err # "nil"
               THEN [q EXCEPT !.errors = Append(@, "could not parse \""
                                  \o q.curToken.Literal \o "\" as integer")]
               ELSE q,
         n |-> [kind |-> "IntegerLiteral", Token |-> q.curToken, Value |-> r.value]])

\* parsePrefixExpression as it would be if the operand were parsed at LOWEST
\* instead of at PREFIX.
parsePrefixExpressionAtLowest(q) ==
    Bind(parseExpression(nextToken(q), LOWEST), LAMBDA r :
        [p |-> r.p,
         n |-> [kind |-> "PrefixExpression", Token |-> q.curToken,
                Operator |-> q.curToken.Literal, Right |-> r.n]])

parsePrefixExpression(q) ==
    Bind(parseExpression(nextToken(q), PREFIX), LAMBDA r :
        [p |-> r.p,
         n |-> [kind |-> "PrefixExpression", Token |-> q.curToken,
                Operator |-> q.curToken.Literal, Right |-> r.n]])

\* parseInfixExpression as it would be if the right operand were parsed at
\* LOWEST instead of at the precedence of the operator.
parseInfixExpressionAtLowest(q, left) ==
    Bind(parseExpression(nextToken(q), LOWEST), LAMBDA r :
        [p |-> r.p,
         n |-> [kind |-> "InfixExpression", Token |-> q.curToken,
                Operator |-> q.curToken.Literal, Left |-> left, Right |-> r.n]])

parseInfixExpression(q, left) ==
    Bind(parseExpression(nextToken(q), curPrecedence(q)), LAMBDA r :
        [p |-> r.p,
         n |-> [kind |-> "InfixExpression", Token |-> q.curToken,
                Operator |-> q.curToken.Literal, Left |-> left, Right |-> r.n]])

parseGroupedExpression(q) ==
    Bind(parseExpression(nextToken(q), LOWEST), LAMBDA r :
    Bind(expectPeek(r.p, RPAREN), LAMBDA e :
        IF ~e.ok THEN [p |-> e.p, n |-> NilInterface] ELSE [p |-> e.p, n |-> r.n]))

RECURSIVE parseCallArgumentsLoop(_, _)
\* for p.peekTokenIs(token.COMMA) { ... } of parseCallArguments
parseCallArgumentsLoop(q, args) ==
    IF peekTokenIs(q, COMMA)
    THEN Bind(parseExpression(nextToken(nextToken(q)), LOWEST), LAMBDA r :
             parseCallArgumentsLoop(r.p, Append(args, r.n)))
    ELSE [p |-> q, n |-> args]

parseCallArguments(q) ==
    IF peekTokenIs(q, RPAREN)
    THEN [p |-> nextToken(q), n |-> Slice(<<>>)]
    ELSE Bind(parseExpression(nextToken(q), LOWEST), LAMBDA r :
         Bind(parseCallArgumentsLoop(r.p, <<r.n>>), LAMBDA a :
         Bind(expectPeek(a.p, RPAREN), LAMBDA e :
             IF ~e.ok THEN [p |-> e.p, n |-> NilSlice]
             ELSE [p |-> e.p, n |-> Slice(a.n)])))

parseCallExpression(q, function) ==
    Bind(parseCallArguments(q), LAMBDA a :
        [p |-> a.p,
         n |-> [kind |-> "CallExpression", Token |-> q.curToken, Function |-> function,
                Arguments |-> a.n]])

RECURSIVE parseFunctionParametersLoop(_, _)
\* for p.peekTokenIs(token.COMMA) { ... } of parseFunctionParameters
parseFunctionParametersLoop(q, identifiers) ==
    IF peekTokenIs(q, COMMA)
    THEN Bind(nextToken(nextToken(q)), LAMBDA q2 :
             parseFunctionParametersLoop(q2, Append(identifiers, Identifier(q2.curToken))))
    ELSE [p |-> q, n |-> identifiers]

parseFunctionParameters(q) ==
    IF peekTokenIs(q, RPAREN)
    THEN [p |-> nextToken(q), n |-> Slice(<<>>)]
    ELSE Bind(nextToken(q), LAMBDA q1 :
         Bind(parseFunctionParametersLoop(q1, <<Identifier(q1.curToken)>>), LAMBDA a :
         Bind(expectPeek(a.p, RPAREN), LAMBDA e :
             IF ~e.ok THEN [p |-> e.p, n |-> NilSlice]
             ELSE [p |-> e.p, n |-> Slice(a.n)])))

parseFunctionLiteral(q) ==
    Bind(expectPeek(q, LPAREN), LAMBDA e1 :
        IF ~e1.ok THEN [p |-> e1.p, n |-> NilInterface]
        ELSE
    Bind(parseFunctionParameters(e1.p), LAMBDA a :
    Bind(expectPeek(a.p, LBRACE), LAMBDA e2 :
        IF ~e2.ok THEN [p |-> e2.p, n |-> NilInterface]
        ELSE
    Bind(parseBlockStatement(e2.p), LAMBDA b :
        [p |-> b.p,
         n |-> [kind |-> "FunctionLiteral", Token |-> q.curToken,
                Parameters |-> a.n, Body |-> b.n]]))))

\* The part of parseIfExpression after expression.Consequence is set.
parseIfExpressionElse(q, expression) ==
    IF peekTokenIs(q, ELSE_)
    THEN Bind(expectPeek(nextToken(q), LBRACE), LAMBDA e4 :
             IF ~e4.ok THEN [p |-> e4.p, n |-> NilInterface]
             ELSE
         Bind(parseBlockStatement(e4.p), LAMBDA alt :
             [p |-> alt.p, n |-> [expression EXCEPT !.Alternative = alt.n]]))
    ELSE [p |-> q, n |-> expression]

parseIfExpression(q) ==
    Bind(expectPeek(q, LPAREN), LAMBDA e1 :
        IF ~e1.ok THEN [p |-> e1.p, n |-> NilInterface]
        ELSE
    Bind(parseExpression(nextToken(e1.p), LOWEST), LAMBDA c :
    Bind(expectPeek(c.p, RPAREN), LAMBDA e2 :
        IF ~e2.ok THEN [p |-> e2.p, n |-> NilInterface]
        ELSE
    Bind(expectPeek(e2.p, LBRACE), LAMBDA e3 :
        IF ~e3.ok THEN [p |-> e3.p, n |-> NilInterface]
        ELSE
    Bind(parseBlockStatement(e3.p), LAMBDA b :
        parseIfExpressionElse(
            b.p,
            [kind |-> "IfExpression", Token |-> q.curToken, Condition |-> c.n,
             Consequence |-> b.n, Alternative |-> NilOf("*ast.BlockStatement")]))))))

\* The prefix parse function registered for the kind of the current token.
prefixParseFns(q) ==
    CASE q.curToken.Type = IDENT -> parseIdentifier(q)
      [] q.curToken.Type = INT -> parseIntegerLiteral(q)
      [] q.curToken.Type \in {BANG, MINUS} -> parsePrefixExpression(q)
      [] q.curToken.Type \in {TRUE_, FALSE_} -> parseBoolean(q)
      [] q.curToken.Type = LPAREN -> parseGroupedExpression(q)
      [] q.curToken.Type = IF_ -> parseIfExpression(q)
      [] q.curToken.Type = FUNCTION -> parseFunctionLiteral(q)
      [] q.curToken.Type = STRING_ -> parseStringLiteral(q)

\* The infix parse function registered for the kind of the current token.
infixParseFns(q, left) ==
    IF q.curToken.Type = LPAREN
    THEN parseCallExpression(q, left)
    ELSE parseInfixExpression(q, left)

RECURSIVE parseExpressionLoop(_, _, _)
\* for !p.curTokenIs(token.SEMICOLON) && precedence < p.peekPrecedence() { ... }
parseExpressionLoop(q, leftExp, precedence) ==
    IF ~curTokenIs(q, SEMICOLON) /\ precedence < peekPrecedence(q)
    THEN IF q.peekToken.Type \notin InfixKinds
         THEN [p |-> q, n |-> leftExp]
         ELSE Bind(infixParseFns(nextToken(q), leftExp), LAMBDA r :
                  parseExpressionLoop(r.p, r.n, precedence))
    ELSE [p |-> q, n |-> leftExp]

\* parseExpression as it would be if it stepped over the token it has no
\* prefix parse function for.
parseExpressionSkipping(q, precedence) ==
    IF q.curToken.Type \notin PrefixKinds
    THEN [p |-> nextToken(noPrefixParseFnError(q, q.curToken.Type)), n |-> NilInterface]
    ELSE Bind(prefixParseFns(q), LAMBDA r : parseExpressionLoop(r.p, r.n, precedence))

parseExpression(q, precedence) ==
    IF q.curToken.Type \notin PrefixKinds
    THEN [p |-> noPrefixParseFnError(q, q.curToken.Type), n |-> NilInterface]
    ELSE Bind(prefixParseFns(q), LAMBDA r : parseExpressionLoop(r.p, r.n, precedence))

\* The parser as it would be left if the trailing semicolon were not looked for.
skipSemicolonNever(q) == q

\* if p.peekTokenIs(token.SEMICOLON) { p.nextToken() }
skipSemicolon(q) == IF peekTokenIs(q, SEMICOLON) THEN nextToken(q) ELSE q

parseLetStatement(q) ==
    Bind(expectPeek(q, IDENT), LAMBDA e1 :
        IF ~e1.ok THEN [p |-> e1.p, n |-> NilOf("*ast.LetStatement")]
        ELSE
    Bind(expectPeek(e1.p, ASSIGN), LAMBDA e2 :
        IF ~e2.ok THEN [p |-> e2.p, n |-> NilOf("*ast.LetStatement")]
        ELSE
    Bind(parseExpression(nextToken(e2.p), LOWEST), LAMBDA r :
        [p |-> skipSemicolon(r.p),
         n |-> [kind |-> "LetStatement", Token |-> q.curToken,
                Name |-> Identifier(e1.p.curToken), Value |-> r.n]])))

parseReturnStatement(q) ==
    Bind(parseExpression(nextToken(q), LOWEST), LAMBDA r :
        [p |-> skipSemicolon(r.p),
         n |-> [kind |-> "ReturnStatement", Token |-> q.curToken, ReturnValue |-> r.n]])

parseExpressionStatement(q) ==
    Bind(parseExpression(q, LOWEST), LAMBDA r :
        [p |-> skipSemicolon(r.p),
         n |-> [kind |-> "ExpressionStatement", Token |-> q.curToken,
                Expression |-> r.n]])

\* The result is an ast.Statement: the pointer each branch returns, stored in
\* an interface.  A nil *ast.LetStatement stays a typed nil inside it.
parseStatement(q) ==
    CASE q.curToken.Type = LET_ -> parseLetStatement(q)
      [] q.curToken.Type = RETURN -> parseReturnStatement(q)
      [] OTHER -> parseExpressionStatement(q)

\* if stmt != nil { statements = append(statements, stmt) }
appendStatement(statements, stmt) ==
    IF ~InterfaceIsNil(stmt) THEN Append(statements, stmt) ELSE statements

RECURSIVE parseBlockStatementLoop(_, _)
\* for !p.curTokenIs(token.RBRACE) && !p.curTokenIs(token.EOF) { ... }
parseBlockStatementLoop(q, statements) ==
    IF ~curTokenIs(q, RBRACE) /\ ~curTokenIs(q, EOF)
    THEN Bind(parseStatement(q), LAMBDA r :
             parseBlockStatementLoop(nextToken(r.p), appendStatement(statements, r.n)))
    ELSE [p |-> q, n |-> statements]

\* parseBlockStatement as it would be if a block had to be closed: reaching
\* EOF before the `}` records an error.
parseBlockStatementExpectingBrace(q) ==
    Bind(parseBlockStatementLoop(nextToken(q), <<>>), LAMBDA r :
        [p |-> IF curTokenIs(r.p, EOF)
               THEN [r.p EXCEPT !.errors = Append(@, "expected next token to be }")]
               ELSE r.p,
         n |-> [kind |-> "BlockStatement", Token |-> q.curToken, Statements |-> r.n]])

parseBlockStatement(q) ==
    Bind(parseBlockStatementLoop(nextToken(q), <<>>), LAMBDA r :
        [p |-> r.p,
         n |-> [kind |-> "BlockStatement", Token |-> q.curToken, Statements |-> r.n]])

RECURSIVE ParseProgramLoop(_, _)
\* for !p.curTokenIs(token.EOF) { ... }
ParseProgramLoop(q, statements) ==
    IF ~curTokenIs(q, EOF)
    THEN Bind(parseStatement(q), LAMBDA r :
             ParseProgramLoop(nextToken(r.p), appendStatement(statements, r.n)))
    ELSE [p |-> q, n |-> statements]

ParseProgram(q) ==
    Bind(ParseProgramLoop(q, <<>>), LAMBDA r :
        [p |-> r.p, n |-> [kind |-> "Program", Statements |-> r.n]])

-----------------------------------------------------------------------------
(* package ast: String()                                                   *)

RECURSIVE String(_)
RECURSIVE Panics(_)

RECURSIVE ConcatStrings(_)
\* for _, s := range statements { out.WriteString(s.String()) }
ConcatStrings(nodes) ==
    IF Len(nodes) = 0 THEN "" ELSE String(nodes[1]) \o ConcatStrings(Tail(nodes))

RECURSIVE JoinStrings(_)
\* strings.Join(list, ", ") of the String() of each node
JoinStrings(nodes) ==
    IF Len(nodes) = 0 THEN ""
    ELSE IF Len(nodes) = 1 THEN String(nodes[1])
    ELSE String(nodes[1]) \o ", " \o JoinStrings(Tail(nodes))

\* The String method of each node type.  Where a call would dereference nil
\* (see Panics) there is no text; the empty string stands at that place.
ProgramString(n) == ConcatStrings(n.Statements)

LetStatementString(n) ==
    n.Token.Literal \o " " \o String(n.Name) \o " = "
    \o (IF ~InterfaceIsNil(n.Value) THEN String(n.Value) ELSE "") \o ";"

IdentifierString(n) == n.Value

ReturnStatementString(n) ==
    n.Token.Literal \o " "
    \o (IF ~InterfaceIsNil(n.ReturnValue) THEN String(n.ReturnValue) ELSE "") \o ";"

ExpressionStatementString(n) ==
    IF ~InterfaceIsNil(n.Expression) THEN String(n.Expression) ELSE ""

\* IntegerLiteral, Boolean and StringLiteral
LiteralString(n) == n.Token.Literal

PrefixExpressionString(n) == "(" \o n.Operator \o String(n.Right) \o ")"

\* InfixExpression.String as it would be without the parentheses.
InfixExpressionStringBare(n) ==
    String(n.Left) \o " " \o n.Operator \o " " \o String(n.Right)

InfixExpressionString(n) ==
    "(" \o String(n.Left) \o " " \o n.Operator \o " " \o String(n.Right) \o ")"

IfExpressionString(n) ==
    "if" \o String(n.Condition) \o " " \o String(n.Consequence)
    \o (IF ~IsNil(n.Alternative) THEN "else " \o String(n.Alternative) ELSE "")

BlockStatementString(n) == ConcatStrings(n.Statements)

FunctionLiteralString(n) ==
    n.Token.Literal \o "(" \o JoinStrings(n.Parameters.elems) \o ") " \o String(n.Body)

CallExpressionString(n) ==
    String(n.Function) \o "(" \o JoinStrings(n.Arguments.elems) \o ")"

\* node.String(): the method of the node's dynamic type.
String(n) ==
    CASE n.kind = "nil" -> ""
      [] n.kind = "Program" -> ProgramString(n)
      [] n.kind = "LetStatement" -> LetStatementString(n)
      [] n.kind = "ReturnStatement" -> ReturnStatementString(n)
      [] n.kind = "ExpressionStatement" -> ExpressionStatementString(n)
      [] n.kind = "Identifier" -> IdentifierString(n)
      [] n.kind \in {"IntegerLiteral", "Boolean", "StringLiteral"} -> LiteralString(n)
      [] n.kind = "PrefixExpression" -> PrefixExpressionString(n)
      [] n.kind = "InfixExpression" -> InfixExpressionString(n)
      [] n.kind = "IfExpression" -> IfExpressionString(n)
      [] n.kind = "BlockStatement" -> BlockStatementString(n)
      [] n.kind = "FunctionLiteral" -> FunctionLiteralString(n)
      [] n.kind = "CallExpression" -> CallExpressionString(n)

\* String() on n panics: it calls a method through a nil interface, or reads
\* a field through a nil pointer.
Panics(n) ==
    CASE n.kind = "nil" -> TRUE
      [] n.kind \in {"Program", "BlockStatement"} ->
           \E i \in 1..Len(n.Statements) : Panics(n.Statements[i])
      [] n.kind = "LetStatement" ->
           Panics(n.Name) \/ (~InterfaceIsNil(n.Value) /\ Panics(n.Value))
      [] n.kind = "ReturnStatement" ->
           ~InterfaceIsNil(n.ReturnValue) /\ Panics(n.ReturnValue)
      [] n.kind = "ExpressionStatement" ->
           ~InterfaceIsNil(n.Expression) /\ Panics(n.Expression)
      [] n.kind \in {"Identifier", "IntegerLiteral", "Boolean", "StringLiteral"} -> FALSE
      [] n.kind = "PrefixExpression" -> Panics(n.Right)
      [] n.kind = "InfixExpression" -> Panics(n.Left) \/ Panics(n.Right)
      [] n.kind = "IfExpression" ->
           \/ Panics(n.Condition)
           \/ Panics(n.Consequence)
           \/ (~IsNil(n.Alternative) /\ Panics(n.Alternative))
      [] n.kind = "FunctionLiteral" ->
           \/ \E i \in 1..Len(n.Parameters.elems) : Panics(n.Parameters.elems[i])
           \/ Panics(n.Body)
      [] n.kind = "CallExpression" ->
           \/ Panics(n.Function)
           \/ \E i \in 1..Len(n.Arguments.elems) : Panics(n.Arguments.elems[i])

-----------------------------------------------------------------------------
(* Inputs.  A line is source text: token texts joined by single spaces.    *)

MaxLen == 3      \* tokens in the exhaustively enumerated lines
MaxOps == 3      \* binary operators in an operator chain
MaxTurns == 2    \* lines read by one REPL session
MaxErrors == 1   \* failed expectPeek calls applied to one parser

Atoms ==
    {"a", "1", "\"s\"", "true", "-", "*", "<", "!", "=", ",", ";",
     "(", ")", "{", "}", "let", "return", "if", "else", "fn"}

HelperAtoms == {"a", "=", "(", ")", "{", "+"}

BinaryOperators == {"==", "!=", "<", ">", "+", "-", "*", "/"}

RECURSIVE TextsUpTo(_, _)
\* The texts of at most n tokens drawn from atoms.
TextsUpTo(atoms, n) ==
    IF n = 0 THEN {""}
    ELSE LET shorter == TextsUpTo(atoms, n - 1)
         IN  shorter \cup {IF t = "" THEN a ELSE t \o " " \o a : t \in shorter, a \in atoms}

OperandName(i) == SubSeq("abcdefgh", i, i)

RECURSIVE Chains(_)
\* a op b op c ...: the texts with exactly n binary operators.
Chains(n) ==
    IF n = 0 THEN {OperandName(1)}
    ELSE {t \o " " \o op \o " " \o OperandName(n + 1) :
              t \in Chains(n - 1), op \in BinaryOperators}

ChainLines == UNION {Chains(n) : n \in 1..MaxOps}

IntegerLines ==
    {"0", "5", "00", "007", "010", "08", "090", "1234567890",
     "9223372036854775807", "9223372036854775808", "18446744073709551616",
     "0777777777777777777777", "01000000000000000000000",
     "00000000000000000000000000000005"}

StatementLines ==
    {"let x = 5;", "let x = 5", "let = 5;", "let x 5;", "let x = ;", "let x = a + b; x",
     "let x = 5; let y = x;", "x; y", "x y", "a + b; c", "return 5;", "return a + b",
     "return;", "let x = 5; return x; y", "let y = \"s\";", "5 + true;", "foobar;",
     "let x = 5 * 5 + 10; x;", "(a + b) * c", "(a + b", "a + (b * c) + d", "!-a",
     "-a * b", "a + -b", "!true == false", "a * (b + c) / d"}

IfLines ==
    {"if (x < y) { x } else { y }", "if (x < y) { x }", "if (x) { y; z } else { }",
     "if (x) { } else { y }", "if x { y }", "if (x { y }", "if (x) y", "if (x) { y } else z",
     "if (x) { y", "if (a) { if (b) { c } else { d } } else { e }",
     "if (x) { let y = 1; y } else { return 2; }", "if (x) { let = 1 }"}

FunctionLines ==
    {"fn() { }", "fn(a) { a }", "fn(a, b) { a + b; }", "fn(1, 2) { }", "fn(a, ) { }",
     "fn(a { }", "fn(a b) { }", "fn(true) { }", "fn(, a) { }", "fn(a, b { a }",
     "fn a { }", "fn(a) a", "fn() { 1", "let f = fn(a, b) { a + b; }; f(2, 3);",
     "fn(x) { fn(y) { x + y } }", "fn(fn) { }", "fn(a + b) { }"}

CallLines ==
    {"f()", "f(a)", "f(a, b)", "f(a b)", "f(a, b", "f(a,)", "f(", "f(a)(b)",
     "f(a + b, c * d)", "a + f(b * c) + d", "-f(x)", "f(g(a), 1)", "fn(a) { a }(1)",
     "(a + b)(c)", "f(a b) + c", "f(a, b c)", "add(a, b, 1, 2 * 3, 4 + 5, add(6, 7 * 8))"}

PrefixOperators == {"!", "-"}

\* Prefix operators and calls next to binary operators.
PrefixLines ==
    {pre \o "a " \o op \o " b" : pre \in PrefixOperators, op \in BinaryOperators}
    \cup {"a " \o op \o " " \o pre \o "b" : pre \in PrefixOperators, op \in BinaryOperators}
    \cup {pre \o q \o "a" : pre \in PrefixOperators, q \in PrefixOperators}
    \cup {pre \o "f(x)" : pre \in PrefixOperators}
    \cup {pre \o "f(x) " \o op \o " b" : pre \in PrefixOperators, op \in BinaryOperators}
    \cup {"a " \o op1 \o " f(b " \o op2 \o " c) " \o op3 \o " d" :
              op1 \in BinaryOperators, op2 \in BinaryOperators, op3 \in BinaryOperators}

\* Well-formed statements, written without the trailing semicolon.
StatementTexts ==
    {"let x = 5", "let y = a + b * c", "let f = fn(a, b) { a + b }", "let s = \"s\"",
     "let b = !true", "let g = f(a)", "return 5", "return a + b", "return f(a)",
     "return if (x) { y } else { z }", "return fn(a) { a }", "x", "5", "a + b",
     "-a * b", "f(a, b)", "(a + b) * c", "if (x < y) { x }",
     "if (x) { y; } else { z; }", "fn() { }", "fn(a) { return a; }", "true", "\"s\"",
     "f(a)(b)", "a == b"}

\* Each of them alone, closed by a semicolon, and followed by a statement.
SemicolonLines ==
    StatementTexts \cup {t \o ";" : t \in StatementTexts}
    \cup {t \o "; z" : t \in StatementTexts}

\* Lines whose one block reaches the end of the input before its `}`.
UnclosedLines ==
    {"if (x) { y", "fn() { 1", "if (x) {", "if (x) { y } else { z",
     "let f = fn(a) { a + 1", "fn(a, b) { let c = a; c", "if (x) { return 1;",
     "let a = 1; if (a) { a"}

\* Lines that begin with the `{` of a block.
BlockLines ==
    {"{ }", "{ x }", "{ x", "{", "{ let a = 1; a }", "{ let a = 1; a", "{ x; y",
     "{ if (x) { y } z }", "{ if (x) { y }", "{ if (x) { y", "{ fn() { 1 } }",
     "{ return } { }", "{ ( } a }", "{ return", "{ let", "{ a +", "{ f(",
     "{ fn(}) { } }", "{ x } y", "{ if (x) { y } else", "{ return 1; } x"}

\* The lines a parser is built for and ParseProgram is applied to.
Lines ==
    TextsUpTo(Atoms, MaxLen) \cup ChainLines \cup IntegerLines \cup StatementLines
    \cup IfLines \cup FunctionLines \cup CallLines \cup PrefixLines \cup SemicolonLines
    \cup UnclosedLines \cup BlockLines

\* The lines on which statements and blocks are parsed one at a time, the
\* statement loops are followed to their end, and the REPL turn is finished.
LoopLines ==
    TextsUpTo(HelperAtoms \cup {"}", ";", "1", "let", "return"}, MaxLen)
    \cup StatementLines
    \cup IfLines \cup FunctionLines \cup CallLines \cup SemicolonLines
    \cup UnclosedLines \cup BlockLines

\* The lines on whose parsers the helper operations are applied one by one.
HelperLines ==
    TextsUpTo(HelperAtoms, MaxLen) \cup {"let x = 5;", "if (x) { y }", "f(a, b)", "$ a"}

\* The lines typed into the REPL.
ReplLines ==
    {"", "5", "x", "let x = 5;", "let y = x;", "let x = ;", "let = 5;", "x + y",
     "let x 5;", "f(a b)", "fn(a, b) { a + b }", "if (x) { y", "010", "08",
     "let x = 1; let y = 2; x + y", "5 + true;", "return 1; let y = 2;", ")"}

\* The precedences parseExpression is called with.
Precedences == {LOWEST, SUM, PREFIX}

\* The kinds the parser passes to expectPeek.
ExpectKinds == {IDENT, ASSIGN, LPAREN, RPAREN, LBRACE}

-----------------------------------------------------------------------------
(* package object / evaluator, as far as repl.Start depends on them        *)

\* object.NewEnvironment(): a fresh, empty environment; id tells environments
\* apart.
NewEnvironment(id) == [id |-> id, store |-> {}]

RECURSIVE LetNames(_, _)
\* The names bound by the Let statements among the first k statements.
LetNames(statements, k) ==
    IF k = 0 THEN {}
    ELSE LetNames(statements, k - 1)
         \cup (IF statements[k].kind = "LetStatement"
               THEN {statements[k].Name.Value} ELSE {})

\* evaluator.Eval(program, env) folds over the statements and stops at the
\* first Return or Error; a Let that is reached and does not fail binds its
\* name in env.  The values are not modelled: the environments Eval may leave
\* are those that bind the Let names of some prefix of the program.
EvalOutcomes(prog, e) ==
    {[e EXCEPT !.store = @ \cup LetNames(prog.Statements, k)] :
         k \in 0..Len(prog.Statements)}

-----------------------------------------------------------------------------
(* State machines                                                          *)

NoOperation ==
    [op |-> "none", arg |-> "", ok |-> TRUE, before |-> New(LexerNew("")),
     n |-> NilInterface]

\* No method call is in progress.
NoCall ==
    [receiver |-> NilInterface, method |-> "none", cur |-> NilInterface, depth |-> 0,
     status |-> "none", result |-> ""]

\* repl.Start before its first statement.
Init ==
    /\ pc = "start"
    /\ turn = 0
    /\ line = ""
    /\ scanned = "not yet"
    /\ p = New(LexerNew(""))
    /\ program = NilOf("*ast.Program")
    /\ env = NilOf("*object.Environment")
    /\ envCount = 0
    /\ evalCalls = 0
    /\ evalEnv = 0
    /\ envAtScan = NilOf("*object.Environment")
    /\ callsAtScan = 0
    /\ out = "none"
    /\ last = NoOperation
    /\ call = NoCall

\* scanner := bufio.NewScanner(in); env := object.NewEnvironment()
Start ==
    /\ pc = "start"
    /\ env' = NewEnvironment(envCount + 1)
    /\ envCount' = envCount + 1
    /\ pc' = "loop"
    /\ UNCHANGED <<turn, line, scanned, p, program, evalCalls, evalEnv, envAtScan,
                   callsAtScan, out, last, call>>

\* Turn as it would be without the `continue` after printParseErrors: the
\* program is evaluated whether or not the parser recorded errors.
TurnEvaluatingAnyway(text) ==
    /\ pc = "loop"
    /\ turn < MaxTurns
    /\ turn' = turn + 1
    /\ scanned' = "line"
    /\ line' = text
    /\ \E r \in {ParseProgram(New(LexerNew(text)))} :
           /\ p' = r.p
           /\ program' = r.n
    /\ envAtScan' = env
    /\ callsAtScan' = evalCalls
    /\ env' \in EvalOutcomes(program', env)
    /\ evalCalls' = evalCalls + 1
    /\ evalEnv' = env.id
    /\ out' \in {"result", "nothing"}
    /\ pc' = "loop"
    /\ UNCHANGED <<envCount, last, call>>

\* Turn as it would be with `return` in place of `continue` after
\* printParseErrors.
TurnReturningOnError(text) ==
    /\ pc = "loop"
    /\ turn < MaxTurns
    /\ turn' = turn + 1
    /\ scanned' = "line"
    /\ line' = text
    /\ \E r \in {ParseProgram(New(LexerNew(text)))} :
           /\ p' = r.p
           /\ program' = r.n
    /\ envAtScan' = env
    /\ callsAtScan' = evalCalls
    /\ IF Len(Errors(p')) # 0
       THEN /\ out' = "parse errors"
            /\ pc' = "done"
            /\ UNCHANGED <<env, evalCalls, evalEnv>>
       ELSE /\ env' \in EvalOutcomes(program', env)
            /\ evalCalls' = evalCalls + 1
            /\ evalEnv' = env.id
            /\ out' \in {"result", "nothing"}
            /\ pc' = "loop"
    /\ UNCHANGED <<envCount, last, call>>

\* One iteration of the for loop in which scanner.Scan() gives a line: the
\* line is parsed; with parse errors they are printed and the loop continues,
\* otherwise the program is evaluated in env and the result printed.
Turn(text) ==
    /\ pc = "loop"
    /\ turn < MaxTurns
    /\ turn' = turn + 1
    /\ scanned' = "line"
    /\ line' = text
    /\ \E r \in {ParseProgram(New(LexerNew(text)))} :
           /\ p' = r.p
           /\ program' = r.n
    /\ envAtScan' = env
    /\ callsAtScan' = evalCalls
    /\ IF Len(Errors(p')) # 0
       THEN /\ out' = "parse errors"
            /\ UNCHANGED <<env, evalCalls, evalEnv>>
       ELSE /\ env' \in EvalOutcomes(program', env)
            /\ evalCalls' = evalCalls + 1
            /\ evalEnv' = env.id
            /\ out' \in {"result", "nothing"}
    /\ pc' = "loop"
    /\ UNCHANGED <<envCount, last, call>>

\* The iteration in which scanner.Scan() returns false: Start returns.
ScanEnd ==
    /\ pc = "loop"
    /\ scanned' = "end"
    /\ pc' = "done"
    /\ UNCHANGED <<turn, line, p, program, env, envCount, evalCalls, evalEnv,
                   envAtScan, callsAtScan, out, last, call>>

Next ==
    \/ Start
    \/ \E text \in ReplLines : Turn(text)
    \/ ScanEnd

Spec == Init /\ [][Next]_vars

\* A parser freshly built for one line, for the operations of the parser
\* taken one at a time.
ParserInit ==
    /\ pc = "new"
    /\ line \in Lines
    /\ p = New(LexerNew(line))
    /\ last = [NoOperation EXCEPT !.op = "New"]
    /\ program = NilOf("*ast.Program")
    /\ turn = 0
    /\ scanned = "line"
    /\ env = NewEnvironment(1)
    /\ envCount = 1
    /\ evalCalls = 0
    /\ evalEnv = 0
    /\ envAtScan = env
    /\ callsAtScan = 0
    /\ out = "none"
    /\ call = NoCall

ReplUnchanged ==
    UNCHANGED <<turn, scanned, env, envCount, evalCalls, evalEnv, envAtScan, callsAtScan,
                out, call>>

\* What repl.Start does with the parsed program: with parse errors it prints
\* them, otherwise it evaluates the program in env and prints the result.
DoFinishTurn ==
    /\ pc = "parsed"
    /\ line \in LoopLines
    /\ IF Len(Errors(p)) # 0
       THEN /\ out' = "parse errors"
            /\ UNCHANGED <<env, evalCalls, evalEnv>>
       ELSE /\ env' \in EvalOutcomes(program, env)
            /\ evalCalls' = evalCalls + 1
            /\ evalEnv' = env.id
            /\ out' \in {"result", "nothing"}
    /\ pc' = "turn done"
    /\ UNCHANGED <<turn, line, scanned, p, program, envCount, envAtScan, callsAtScan,
                   last, call>>

\* program := p.ParseProgram() on the fresh parser
DoParseProgram ==
    /\ pc = "new"
    /\ last.op = "New"
    /\ \E r \in {ParseProgram(p)} :
           /\ p' = r.p
           /\ program' = r.n
    /\ pc' = "parsed"
    /\ last' = [op |-> "ParseProgram", arg |-> "", ok |-> TRUE, before |-> p,
                n |-> NilInterface]
    /\ UNCHANGED line
    /\ ReplUnchanged

\* p.nextToken()
DoNextToken ==
    /\ pc = "new"
    /\ line \in HelperLines
    /\ ~curTokenIs(p, EOF)
    /\ p' = nextToken(p)
    /\ last' = [op |-> "nextToken", arg |-> "", ok |-> TRUE, before |-> p,
                n |-> NilInterface]
    /\ UNCHANGED <<pc, line, program>>
    /\ ReplUnchanged

\* p.expectPeek(t)
DoExpectPeek(t) ==
    /\ pc = "new"
    /\ line \in HelperLines
    /\ (Len(p.errors) < MaxErrors \/ peekTokenIs(p, t))
    /\ \E e \in {expectPeek(p, t)} :
           /\ p' = e.p
           /\ last' = [op |-> "expectPeek", arg |-> t, ok |-> e.ok, before |-> p,
                      n |-> NilInterface]
    /\ UNCHANGED <<pc, line, program>>
    /\ ReplUnchanged

\* p.parseExpression(precedence); n is the expression it returns
DoParseExpression(precedence) ==
    /\ pc = "new"
    /\ line \in HelperLines
    /\ Len(p.errors) < MaxErrors
    /\ \E r \in {parseExpression(p, precedence)} :
           /\ p' = r.p
           /\ last' = [op |-> "parseExpression", arg |-> "", ok |-> TRUE, before |-> p,
                      n |-> r.n]
    /\ UNCHANGED <<pc, line, program>>
    /\ ReplUnchanged

\* stmt := p.parseStatement() on the fresh parser; n is the statement
DoParseStatement ==
    /\ pc = "new"
    /\ last.op = "New"
    /\ line \in LoopLines
    /\ \E r \in {parseStatement(p)} :
           /\ p' = r.p
           /\ last' = [op |-> "parseStatement", arg |-> "", ok |-> TRUE, before |-> p,
                      n |-> r.n]
    /\ pc' = "statement"
    /\ UNCHANGED <<line, program>>
    /\ ReplUnchanged

\* block := p.parseBlockStatement() on a fresh parser whose first token is `{`;
\* n is the block
DoParseBlockStatement ==
    /\ pc = "new"
    /\ last.op = "New"
    /\ line \in LoopLines
    /\ curTokenIs(p, LBRACE)
    /\ \E r \in {parseBlockStatement(p)} :
           /\ p' = r.p
           /\ last' = [op |-> "parseBlockStatement", arg |-> "", ok |-> TRUE,
                      before |-> p, n |-> r.n]
    /\ pc' = "block"
    /\ UNCHANGED <<line, program>>
    /\ ReplUnchanged

\* ParseProgram taken one iteration of its loop at a time.  The loop has been
\* entered, or the parser is fresh and ParseProgram starts on it.
InProgramLoop ==
    \/ pc = "program loop"
    \/ (pc = "new" /\ last.op = "New" /\ line \in LoopLines)

\* The statements ParseProgram has collected so far.
ProgramSoFar == IF pc = "program loop" THEN program.Statements ELSE <<>>

\* One iteration as it would be without the p.nextToken() that ends it.
DoProgramIterationStaying ==
    /\ InProgramLoop
    /\ ~curTokenIs(p, EOF)
    /\ \E r \in {parseStatement(p)} :
           /\ p' = r.p
           /\ program' = [kind |-> "Program",
                          Statements |-> appendStatement(ProgramSoFar, r.n)]
           /\ last' = [op |-> "ParseProgram iteration", arg |-> "", ok |-> TRUE,
                      before |-> p, n |-> r.n]
    /\ pc' = "program loop"
    /\ UNCHANGED line
    /\ ReplUnchanged

\* One iteration of `for !p.curTokenIs(token.EOF)`: a statement is parsed,
\* appended unless nil, and the parser steps one token.
DoProgramIteration ==
    /\ InProgramLoop
    /\ ~curTokenIs(p, EOF)
    /\ \E r \in {parseStatement(p)} :
           /\ p' = nextToken(r.p)
           /\ program' = [kind |-> "Program",
                          Statements |-> appendStatement(ProgramSoFar, r.n)]
           /\ last' = [op |-> "ParseProgram iteration", arg |-> "", ok |-> TRUE,
                      before |-> p, n |-> r.n]
    /\ pc' = "program loop"
    /\ UNCHANGED line
    /\ ReplUnchanged

\* The loop test fails on EOF and ParseProgram returns the program.
DoProgramReturn ==
    /\ InProgramLoop
    /\ curTokenIs(p, EOF)
    /\ program' = [kind |-> "Program", Statements |-> ProgramSoFar]
    /\ last' = [op |-> "ParseProgram", arg |-> "", ok |-> TRUE,
                before |-> New(LexerNew(line)), n |-> NilInterface]
    /\ pc' = "parsed"
    /\ UNCHANGED <<line, p>>
    /\ ReplUnchanged

\* parseBlockStatement taken one iteration at a time, on a fresh parser whose
\* first token is `{`: the block is made and the parser steps behind the `{`.
DoBlockEnter ==
    /\ pc = "new"
    /\ last.op = "New"
    /\ line \in LoopLines
    /\ curTokenIs(p, LBRACE)
    /\ p' = nextToken(p)
    /\ last' = [op |-> "parseBlockStatement entry", arg |-> "", ok |-> TRUE,
                before |-> p,
                n |-> [kind |-> "BlockStatement", Token |-> p.curToken,
                       Statements |-> <<>>]]
    /\ pc' = "block loop"
    /\ UNCHANGED <<line, program>>
    /\ ReplUnchanged

\* One iteration of `for !p.curTokenIs(token.RBRACE) && !p.curTokenIs(token.EOF)`.
DoBlockIteration ==
    /\ pc = "block loop"
    /\ ~curTokenIs(p, RBRACE) /\ ~curTokenIs(p, EOF)
    /\ \E r \in {parseStatement(p)} :
           /\ p' = nextToken(r.p)
           /\ last' = [op |-> "parseBlockStatement iteration", arg |-> "", ok |-> TRUE,
                      before |-> p,
                      n |-> [last.n EXCEPT
                                 !.Statements = appendStatement(@, r.n)]]
    /\ UNCHANGED <<pc, line, program>>
    /\ ReplUnchanged

\* The loop test fails on `}` or EOF and parseBlockStatement returns the block.
DoBlockReturn ==
    /\ pc = "block loop"
    /\ curTokenIs(p, RBRACE) \/ curTokenIs(p, EOF)
    /\ last' = [op |-> "parseBlockStatement", arg |-> "", ok |-> TRUE,
                before |-> New(LexerNew(line)), n |-> last.n]
    /\ pc' = "block"
    /\ UNCHANGED <<line, p, program>>
    /\ ReplUnchanged

ParserNext ==
    \/ DoParseProgram
    \/ DoProgramIteration
    \/ DoProgramReturn
    \/ DoFinishTurn
    \/ DoParseStatement
    \/ DoParseBlockStatement
    \/ DoBlockEnter
    \/ DoBlockIteration
    \/ DoBlockReturn
    \/ DoNextToken
    \/ \E t \in ExpectKinds : DoExpectPeek(t)
    \/ \E precedence \in Precedences : DoParseExpression(precedence)

ParserSpec == ParserInit /\ [][ParserNext]_vars

\* The two statement loops alone, on the lines with statements and blocks.
LoopInit ==
    /\ ParserInit
    /\ line \in LoopLines

LoopNext ==
    \/ DoProgramIteration
    \/ DoProgramReturn
    \/ DoBlockEnter
    \/ DoBlockIteration
    \/ DoBlockReturn

\* A step of a loop is possible: ENABLED <<LoopNext>>_vars, written out.  (On
\* a fresh parser ParseProgram can start, and in a loop either the test holds
\* and an iteration runs or it fails and the operation returns.)
LoopCanStep == pc \in {"new", "program loop", "block loop"}

\* The loops are sequential code: an iteration that can run does run, and a
\* loop whose test fails returns.  The condition is WF_vars(LoopNext) with
\* its ENABLED written out as LoopCanStep.
LoopSpec ==
    /\ LoopInit
    /\ [][LoopNext]_vars
    /\ ([]<>(~LoopCanStep) \/ []<><<LoopNext>>_vars)

-----------------------------------------------------------------------------
(* Definitions the properties are stated with                              *)

RECURSIVE LexAll(_)
\* The tokens the lexer gives before its first EOF.
LexAll(l) ==
    Bind(NextToken(l), LAMBDA r :
        IF r.tok.Type = EOF THEN <<>> ELSE <<r.tok>> \o LexAll(r.l))

TokensOf(text) == LexAll(LexerNew(text))

\* The child nodes of a node, in source order.
Children(n) ==
    CASE n.kind \in {"Program", "BlockStatement"} -> n.Statements
      [] n.kind = "LetStatement" -> <<n.Name, n.Value>>
      [] n.kind = "ReturnStatement" -> <<n.ReturnValue>>
      [] n.kind = "ExpressionStatement" -> <<n.Expression>>
      [] n.kind = "PrefixExpression" -> <<n.Right>>
      [] n.kind = "InfixExpression" -> <<n.Left, n.Right>>
      [] n.kind = "IfExpression" -> <<n.Condition, n.Consequence, n.Alternative>>
      [] n.kind = "FunctionLiteral" -> n.Parameters.elems \o <<n.Body>>
      [] n.kind = "CallExpression" -> <<n.Function>> \o n.Arguments.elems
      [] OTHER -> <<>>

\* What a node holds besides its children (the data model of the AST: names,
\* values, operators, and whether a list is there at all).
Attribute(n) ==
    CASE n.kind = "nil" -> n.type
      [] n.kind \in {"Identifier", "IntegerLiteral", "StringLiteral"} -> n.Value
      [] n.kind = "Boolean" -> IF n.Value THEN "true" ELSE "false"
      [] n.kind \in {"PrefixExpression", "InfixExpression"} -> n.Operator
      [] n.kind = "FunctionLiteral" -> IF n.Parameters.isNil THEN "nil" ELSE "list"
      [] n.kind = "CallExpression" -> IF n.Arguments.isNil THEN "nil" ELSE "list"
      [] OTHER -> ""

RECURSIVE EqualNode(_, _)
\* Structural equality of two ASTs: same kinds, same attributes, same nesting.
EqualNode(a, b) ==
    /\ a.kind = b.kind
    /\ Attribute(a) = Attribute(b)
    /\ Len(Children(a)) = Len(Children(b))
    /\ \A i \in 1..Len(Children(a)) : EqualNode(Children(a)[i], Children(b)[i])

RECURSIVE Nodes(_)
RECURSIVE NodesOfList(_)
NodesOfList(list) ==
    IF Len(list) = 0 THEN <<>> ELSE Nodes(list[1]) \o NodesOfList(Tail(list))

\* Every node of the tree under n, n first.
Nodes(n) == <<n>> \o NodesOfList(Children(n))

\* ParseProgram has been applied to a fresh parser for `line`.
Parsed == pc = "parsed"

-----------------------------------------------------------------------------
(* C1: binary operators group by precedence level, left to right           *)

\* The level the claim gives each binary operator.
LevelOf(op) ==
    CASE op \in {"==", "!="} -> 1
      [] op \in {"<", ">"} -> 2
      [] op \in {"+", "-"} -> 3
      [] op \in {"*", "/"} -> 4

\* identifier (operator identifier)*, at least one operator
IsChain(toks) ==
    /\ Len(toks) >= 3
    /\ Len(toks) % 2 = 1
    /\ \A i \in 1..Len(toks) :
           IF i % 2 = 1 THEN toks[i].Type = IDENT ELSE toks[i].Literal \in BinaryOperators

\* The operator at which toks[i..j] splits: the rightmost one of the lowest
\* level (everything of a higher level binds tighter; equal levels group to
\* the left).
SplitAt(toks, i, j) ==
    CHOOSE k \in {m \in i..j : (m - i) % 2 = 1} :
        \A m \in {m \in i..j : (m - i) % 2 = 1} :
            \/ LevelOf(toks[k].Literal) < LevelOf(toks[m].Literal)
            \/ (LevelOf(toks[k].Literal) = LevelOf(toks[m].Literal) /\ k >= m)

RECURSIVE Grouping(_, _, _)
\* The fully parenthesized text of the chain toks[i..j].
Grouping(toks, i, j) ==
    IF i = j THEN toks[i].Literal
    ELSE Bind(SplitAt(toks, i, j), LAMBDA k :
             "(" \o Grouping(toks, i, k - 1) \o " " \o toks[k].Literal \o " "
             \o Grouping(toks, k + 1, j) \o ")")

\* C1: for every line that is a chain of identifiers and binary operators,
\* ParseProgram records no error and string() of the program is the chain
\* grouped by precedence level, equal levels to the left.
C1_PrecedenceGrouping ==
    (Parsed /\ IsChain(TokensOf(line))) =>
        /\ Errors(p) = <<>>
        /\ String(program) = Grouping(TokensOf(line), 1, Len(TokensOf(line)))

C1_Witness ==
    /\ Parsed
    /\ line = "a == b < c + d"
    /\ String(program) = "(a == (b < (c + d)))"

-----------------------------------------------------------------------------
(* C6: expect_peek advances on a match, records one error otherwise        *)

\* C6: after expectPeek(t) on a parser whose peek token has kind t the current
\* token is the old peek token, the peek token is the next token of the
\* lexer, no error is added and the call returns true; otherwise the tokens
\* and the lexer are as before, exactly one message is appended and the call
\* returns false.
C6_ExpectPeekFrame ==
    last.op = "expectPeek" =>
        IF last.before.peekToken.Type = last.arg
        THEN /\ last.ok
             /\ p.curToken = last.before.peekToken
             /\ p.peekToken = NextToken(last.before.l).tok
             /\ p.l = NextToken(last.before.l).l
             /\ p.errors = last.before.errors
        ELSE /\ ~last.ok
             /\ p.curToken = last.before.curToken
             /\ p.peekToken = last.before.peekToken
             /\ p.l = last.before.l
             /\ p.errors = Append(last.before.errors,
                                  "expected next token to be " \o last.arg \o ", got "
                                  \o last.before.peekToken.Type \o " instead.")

\* A matching expectPeek applied after a failing one.
C6_Witness ==
    /\ last.op = "expectPeek"
    /\ last.ok
    /\ Len(p.errors) = 1
    /\ p.curToken.Type = LPAREN

-----------------------------------------------------------------------------
(* C2: parsing the text of string() again                                  *)

\* Parsing the text String() gives for prog yields, without errors, a program
\* structurally equal to prog.
RoundTrip(prog) ==
    Bind(ParseProgram(New(LexerNew(String(prog)))), LAMBDA r :
        Errors(r.p) = <<>> /\ EqualNode(r.n, prog))

\* No if expression, no function literal, no string literal, and no
\* expression statement before the last statement.
Reparsable(prog) ==
    /\ \A i \in 1..Len(Nodes(prog)) :
           Nodes(prog)[i].kind \notin {"IfExpression", "FunctionLiteral", "StringLiteral"}
    /\ \A i \in 1..(Len(prog.Statements) - 1) :
           prog.Statements[i].kind # "ExpressionStatement"

\* C2 as stated: every program parsed without errors survives the round trip.
C2_RoundTripAll == (Parsed /\ Errors(p) = <<>>) => RoundTrip(program)

\* C2, amended: a program parsed without errors survives the round trip when
\* it holds no if expression, function literal or string literal and only
\* its last statement may be an expression statement.
C2_RoundTripReparsable ==
    (Parsed /\ Errors(p) = <<>> /\ Reparsable(program)) => RoundTrip(program)

C2_Witness ==
    /\ Parsed
    /\ line = "let x = 5 * 5 + 10; x;"
    /\ Errors(p) = <<>>
    /\ Reparsable(program)
    /\ String(program) = "let x = ((5 * 5) + 10);x"

-----------------------------------------------------------------------------
(* C3: only non-null statements are collected                              *)

\* C3: no element of the statement list of the Program, or of a Block in it,
\* is a nil statement.
C3_NoNilStatement ==
    Parsed =>
        \A i \in 1..Len(Nodes(program)) :
            Nodes(program)[i].kind \in {"Program", "BlockStatement"} =>
                \A j \in 1..Len(Nodes(program)[i].Statements) :
                    ~IsNil(Nodes(program)[i].Statements[j])

-----------------------------------------------------------------------------
(* C4, C5: the REPL loop                                                   *)

\* C4: while the parser of the last line holds an error, Eval has not been
\* called since that line was read, the environment is as it was when the
\* line was read, and the turn printed the parse errors.
C4_NoEvalOnParseError ==
    Len(Errors(p)) # 0 =>
        /\ evalCalls = callsAtScan
        /\ env = envAtScan
        /\ out = "parse errors"

\* A line with a parse error read after a line that was evaluated and bound
\* a name.
C4_Witness ==
    /\ Len(Errors(p)) # 0
    /\ evalCalls = 1
    /\ env.store = {"x"}
    /\ line = "let = 5;"

-----------------------------------------------------------------------------
(* C7: the text of an if expression with an alternative                    *)

\* C7: string() of an If with an alternative is "if" + condition + " " +
\* consequence + " else " + alternative.
C7_ElseSeparated ==
    Parsed =>
        \A i \in 1..Len(Nodes(program)) :
            (/\ Nodes(program)[i].kind = "IfExpression"
             /\ ~IsNil(Nodes(program)[i].Alternative)
             /\ ~Panics(Nodes(program)[i])) =>
                String(Nodes(program)[i]) =
                    "if" \o String(Nodes(program)[i].Condition) \o " "
                    \o String(Nodes(program)[i].Consequence) \o " else "
                    \o String(Nodes(program)[i].Alternative)

-----------------------------------------------------------------------------
(* C8: a failed helper leaves no node                                      *)

\* C8: no Call node lacks its argument list and no FunctionLiteral node lacks
\* its parameter list (the list is nil exactly when the helper that parses it
\* failed).
C8_NoNodeFromFailedHelper ==
    Parsed =>
        \A i \in 1..Len(Nodes(program)) :
            /\ Nodes(program)[i].kind = "CallExpression" =>
                   ~Nodes(program)[i].Arguments.isNil
            /\ Nodes(program)[i].kind = "FunctionLiteral" =>
                   ~Nodes(program)[i].Parameters.isNil

-----------------------------------------------------------------------------
(* C9: the value of an integer literal                                     *)

\* The number a run of digits denotes in decimal.
DecimalValue(literal) == Canon(DigitsOfString(literal))

FitsInt64(literal) == ~BigLess(MaxInt64, DecimalValue(literal))

\* C9: for a line that is one INT token, the literal's value is the decimal
\* value of the digits and no error is recorded when that value fits an
\* int64, and the one error recorded otherwise is "could not parse".
C9_DecimalValue ==
    (Parsed /\ Len(TokensOf(line)) = 1 /\ TokensOf(line)[1].Type = INT) =>
        /\ Len(program.Statements) = 1
        /\ IF FitsInt64(line)
           THEN /\ Errors(p) = <<>>
                /\ program.Statements[1].Expression.kind = "IntegerLiteral"
                /\ program.Statements[1].Expression.Value
                       = StringOfDigits(DecimalValue(line))
           ELSE Errors(p) = <<"could not parse \"" \o line \o "\" as integer">>

-----------------------------------------------------------------------------
(* C10: the parameters of a function literal are identifiers               *)

\* C10: every parameter of every FunctionLiteral was introduced by an IDENT
\* token.
C10_ParametersAreIdentifiers ==
    Parsed =>
        \A i \in 1..Len(Nodes(program)) :
            Nodes(program)[i].kind = "FunctionLiteral" =>
                \A j \in 1..Len(Nodes(program)[i].Parameters.elems) :
                    Nodes(program)[i].Parameters.elems[j].Token.Type = IDENT

-----------------------------------------------------------------------------
(* C11: parse_expression on a token without a prefix parse function        *)

\* C11: after parseExpression on a parser whose current token is of none of
\* the kinds IDENT, INT, STRING, TRUE, FALSE, BANG, MINUS, LPAREN, IF,
\* FUNCTION, the error list is the one before with "no prefix parse function
\* for <kind> found" appended, the call returned no expression, and the
\* tokens and the lexer are as before.
C11_NoPrefixParseFn ==
    (/\ last.op = "parseExpression"
     /\ last.before.curToken.Type \notin
            {IDENT, INT, STRING_, TRUE_, FALSE_, BANG, MINUS, LPAREN, IF_, FUNCTION}) =>
        /\ p.errors = Append(last.before.errors,
                             "no prefix parse function for "
                             \o last.before.curToken.Type \o " found")
        /\ InterfaceIsNil(last.n)
        /\ p.curToken = last.before.curToken
        /\ p.peekToken = last.before.peekToken
        /\ p.l = last.before.l

\* parseExpression called with `=` as the current token and `a` after it.
C11_Witness ==
    /\ last.op = "parseExpression"
    /\ last.before.curToken.Type = ASSIGN
    /\ p.curToken.Type = ASSIGN
    /\ p.peekToken.Type = IDENT
    /\ p.errors = <<"no prefix parse function for = found">>

-----------------------------------------------------------------------------
(* C12: a Let carries a name                                               *)

\* n is a Let statement: a *ast.LetStatement, nil or not.
IsLetStatement(n) ==
    \/ n.kind = "LetStatement"
    \/ (n.kind = "nil" /\ n.type = "*ast.LetStatement")

\* C12: every Let statement of the program, at top level or in a block, has a
\* name, and the name is a non-empty identifier from an IDENT token.
C12_LetCarriesName ==
    Parsed =>
        \A i \in 1..Len(Nodes(program)) :
            IsLetStatement(Nodes(program)[i]) =>
                /\ ~IsNil(Nodes(program)[i])
                /\ Nodes(program)[i].Name.kind = "Identifier"
                /\ Nodes(program)[i].Name.Token.Type = IDENT
                /\ Nodes(program)[i].Name.Value # ""

-----------------------------------------------------------------------------
(* package ast: TokenLiteral(), and the node types the parser never builds *)

LBRACKET == "["

ArrayLiteral(elements) ==
    [kind |-> "ArrayLiteral", Token |-> Token(LBRACKET, "["), Elements |-> elements]

IndexExpression(left, index) ==
    [kind |-> "IndexExpression", Token |-> Token(LBRACKET, "["), Left |-> left,
     Index |-> index]

HashLiteral(pairs) ==
    [kind |-> "HashLiteral", Token |-> Token(LBRACE, "{"), Pairs |-> pairs]

\* What the body of the TokenLiteral method of n does: it returns a string
\* (done), or it returns whatever TokenLiteral gives on another node (next),
\* or it reads a field through a nil pointer (panic).
TokenLiteral(n) ==
    CASE n.kind = "nil" ->
           [does |-> "panic", value |-> "", next |-> n]
      [] n.kind = "Program" ->
           IF Len(n.Statements) > 0
           THEN [does |-> "call", value |-> "", next |-> n.Statements[1]]
           ELSE [does |-> "return", value |-> "", next |-> n]
      [] n.kind = "ArrayLiteral" ->
           [does |-> "call", value |-> "", next |-> n]
      [] OTHER ->
           [does |-> "return", value |-> n.Token.Literal, next |-> n]

-----------------------------------------------------------------------------
(* package object: Type() and Inspect()                                    *)

INTEGER_OBJ == "INTEGER"
BOOLEAN_OBJ == "BOOLEAN"
NULL_OBJ == "NULL"
RETURN_VALUE_OBJ == "RETURN_VALUE"
ERROR_OBJ == "ERROR"
STRING_OBJ == "STRING"

\* An int64: its sign and the decimal digits of its magnitude.
Int64(neg, digits) == [neg |-> neg, mag |-> DigitsOfString(digits)]

Integer(value) == [kind |-> "Integer", Value |-> value]
BooleanObject(value) == [kind |-> "Boolean", Flag |-> value]
Null == [kind |-> "Null"]
ReturnValue(value) == [kind |-> "ReturnValue", Inner |-> value]
Error(message) == [kind |-> "Error", Message |-> message]
StringObject(value) == [kind |-> "String", Text |-> value]

Type(o) ==
    CASE o.kind = "Integer" -> INTEGER_OBJ
      [] o.kind = "Boolean" -> BOOLEAN_OBJ
      [] o.kind = "Null" -> NULL_OBJ
      [] o.kind = "ReturnValue" -> RETURN_VALUE_OBJ
      [] o.kind = "Error" -> ERROR_OBJ
      [] o.kind = "String" -> STRING_OBJ

\* fmt.Sprintf("%d", v)
FormatInt(v) == (IF v.neg THEN "-" ELSE "") \o StringOfDigits(v.mag)

\* fmt.Sprintf("%t", b)
FormatBool(b) == IF b THEN "true" ELSE "false"

RECURSIVE Inspect(_)

\* ReturnValue.Inspect as it would be if it marked the wrapping.
ReturnValueInspectMarked(o) == "return " \o Inspect(o.Inner)

ReturnValueInspect(o) == Inspect(o.Inner)

Inspect(o) ==
    CASE o.kind = "Integer" -> FormatInt(o.Value)
      [] o.kind = "Boolean" -> FormatBool(o.Flag)
      [] o.kind = "Null" -> "null"
      [] o.kind = "ReturnValue" -> ReturnValueInspect(o)
      [] o.kind = "Error" -> "ERROR: " \o o.Message
      [] o.kind = "String" -> o.Text

-----------------------------------------------------------------------------
(* Method calls on nodes and objects, one receiver at a time               *)

MaxStack == 3    \* calls in progress the stack has room for
MaxWrap == 2     \* ReturnValues wrapped around a value

\* The lines whose nodes receive TokenLiteral.
AstLines ==
    <<"", "let x = 5;", "return a + b;", "!true", "f(a, \"s\")", "x; y",
      "if (x < y) { x } else { y }", "fn(a, b) { a + b }">>

RECURSIVE NodesOfLines(_)
\* The non-nil nodes of the programs parsed from the lines.
NodesOfLines(lines) ==
    IF Len(lines) = 0 THEN <<>>
    ELSE SelectSeq(Nodes(ParseProgram(New(LexerNew(lines[1]))).n), LAMBDA n : ~IsNil(n))
         \o NodesOfLines(Tail(lines))

AstReceivers ==
    NodesOfLines(AstLines)
    \o <<ArrayLiteral(<<>>),
         ArrayLiteral(<<Identifier(Token(IDENT, "a"))>>),
         IndexExpression(Identifier(Token(IDENT, "a")), Identifier(Token(IDENT, "i"))),
         HashLiteral(<<>>)>>

PlainObjects ==
    <<Integer(Int64(FALSE, "0")), Integer(Int64(FALSE, "5")), Integer(Int64(TRUE, "7")),
      Integer(Int64(FALSE, "1234567890")),
      Integer(Int64(FALSE, "9223372036854775807")),
      Integer(Int64(TRUE, "9223372036854775808")),
      BooleanObject(TRUE), BooleanObject(FALSE), Null,
      Error("identifier not found: x"), Error(""), Error("type mismatch: INTEGER + BOOLEAN"),
      StringObject(""), StringObject("hello world"), StringObject("\"quoted\""),
      StringObject("null"), StringObject("ERROR: x"), StringObject("5")>>

RECURSIVE Wrapped(_, _)
\* o inside k ReturnValues
Wrapped(o, k) == IF k = 0 THEN o ELSE ReturnValue(Wrapped(o, k - 1))

NewCall(receiver, method) ==
    [receiver |-> receiver, method |-> method, cur |-> receiver, depth |-> 0,
     status |-> "none", result |-> ""]

\* A node or an object on which a method is about to be called.
MethodInit ==
    /\ pc = "method"
    /\ \/ \E i \in 1..Len(AstReceivers) : call = NewCall(AstReceivers[i], "TokenLiteral")
       \/ \E i \in 1..Len(PlainObjects), k \in 0..MaxWrap, m \in {"Inspect", "Type"} :
              call = NewCall(Wrapped(PlainObjects[i], k), m)
    /\ line = ""
    /\ p = New(LexerNew(""))
    /\ program = NilOf("*ast.Program")
    /\ last = NoOperation
    /\ turn = 0
    /\ scanned = "not yet"
    /\ env = NilOf("*object.Environment")
    /\ envCount = 0
    /\ evalCalls = 0
    /\ evalEnv = 0
    /\ envAtScan = NilOf("*object.Environment")
    /\ callsAtScan = 0
    /\ out = "none"

MethodUnchanged ==
    UNCHANGED <<pc, turn, line, scanned, p, program, env, envCount, evalCalls, evalEnv,
                envAtScan, callsAtScan, out, last>>

\* receiver.TokenLiteral() is called: the first frame is on the stack.
CallTokenLiteral ==
    /\ pc = "method"
    /\ call.method = "TokenLiteral"
    /\ call.status = "none"
    /\ call' = [call EXCEPT !.status = "running", !.depth = 1]
    /\ MethodUnchanged

\* The body of the innermost TokenLiteral in progress runs: it returns (and
\* with it every caller, each of which returns what its callee returned), it
\* panics, or it calls TokenLiteral on a node, which needs a frame more; with
\* no room left on the stack the program ends with a stack overflow.
StepTokenLiteral ==
    /\ pc = "method"
    /\ call.method = "TokenLiteral"
    /\ call.status = "running"
    /\ \E r \in {TokenLiteral(call.cur)} :
           call' = CASE r.does = "return" ->
                          [call EXCEPT !.status = "returned", !.result = r.value,
                                       !.depth = 0]
                     [] r.does = "panic" -> [call EXCEPT !.status = "panic"]
                     [] r.does = "call" /\ call.depth < MaxStack ->
                          [call EXCEPT !.cur = r.next, !.depth = @ + 1]
                     [] OTHER -> [call EXCEPT !.status = "stack overflow"]
    /\ MethodUnchanged

\* receiver.Inspect()
DoInspect ==
    /\ pc = "method"
    /\ call.method = "Inspect"
    /\ call.status = "none"
    /\ call' = [call EXCEPT !.status = "returned", !.result = Inspect(call.receiver)]
    /\ MethodUnchanged

\* receiver.Type()
DoType ==
    /\ pc = "method"
    /\ call.method = "Type"
    /\ call.status = "none"
    /\ call' = [call EXCEPT !.status = "returned", !.result = Type(call.receiver)]
    /\ MethodUnchanged

MethodNext ==
    \/ CallTokenLiteral
    \/ StepTokenLiteral
    \/ DoInspect
    \/ DoType

MethodSpec == MethodInit /\ [][MethodNext]_vars

-----------------------------------------------------------------------------
(* C13: token_literal terminates with the literal of the introducing token *)

\* The literal the claim names for a node.
IntroducingLiteral(n) ==
    IF n.kind = "Program"
    THEN IF Len(n.Statements) = 0 THEN "" ELSE n.Statements[1].Token.Literal
    ELSE n.Token.Literal

\* C13: a call of TokenLiteral on a node never ends in a stack overflow or a
\* panic, and when it has returned the result is the literal of the token
\* that introduced the node (for a Program, of its first statement, or ""
\* without statements).
C13_TokenLiteralReturns ==
    call.method = "TokenLiteral" =>
        /\ call.status \notin {"stack overflow", "panic"}
        /\ call.status = "returned" => call.result = IntroducingLiteral(call.receiver)

-----------------------------------------------------------------------------
(* C14: inspect and type of runtime values                                 *)

RECURSIVE Unwrap(_)
\* The value inside every ReturnValue around it.
Unwrap(o) == IF o.kind = "ReturnValue" THEN Unwrap(o.Inner) ELSE o

\* text without its first character
Rest(text) == SubSeq(text, 2, Len(text))

\* text is a run of decimal digits without a superfluous leading zero
IsNumeral(text) ==
    /\ Len(text) >= 1
    /\ \A i \in 1..Len(text) : CharAt(text, i) \in Digits
    /\ Len(text) > 1 => CharAt(text, 1) # "0"

\* text writes the integer v in decimal: a numeral for its magnitude, after a
\* minus sign exactly when v is negative.
WritesInDecimal(text, v) ==
    IF v.neg
    THEN /\ CharAt(text, 1) = "-"
         /\ IsNumeral(Rest(text))
         /\ DigitsOfString(Rest(text)) = v.mag
    ELSE /\ IsNumeral(text)
         /\ DigitsOfString(text) = v.mag

\* What the claim says inspect gives for a value that is not a ReturnValue.
Renders(text, o) ==
    CASE o.kind = "Error" -> text = "ERROR: " \o o.Message
      [] o.kind = "String" -> text = o.Text
      [] o.kind = "Null" -> text = "null"
      [] o.kind = "Boolean" -> (o.Flag /\ text = "true") \/ (~o.Flag /\ text = "false")
      [] o.kind = "Integer" -> WritesInDecimal(text, o.Value)

\* C14: Inspect of a value, through any depth of ReturnValue wrapping, is the
\* rendering of the innermost value: `ERROR: ` and the message for an Error,
\* the raw contents for a String, `null` for Null, `true` or `false` for a
\* Boolean, the decimal numeral for an Integer; and Type of a ReturnValue is
\* RETURN_VALUE.
C14_InspectRenders ==
    call.status = "returned" =>
        /\ call.method = "Inspect" => Renders(call.result, Unwrap(call.receiver))
        /\ (call.method = "Type" /\ call.receiver.kind = "ReturnValue") =>
               call.result = "RETURN_VALUE"

\* Inspect has returned on an Error inside two ReturnValues.
C14_Witness ==
    /\ call.status = "returned"
    /\ call.method = "Inspect"
    /\ call.receiver.kind = "ReturnValue"
    /\ call.receiver.Inner.kind = "ReturnValue"
    /\ call.receiver.Inner.Inner.kind = "Error"
    /\ call.result = "ERROR: identifier not found: x"

-----------------------------------------------------------------------------
(* C15: prefix operators between the binary operators and the call         *)

\* toks has the given length and at each index the given class of token:
\* "p" a prefix operator, "b" a binary operator, "i" an identifier, "(" and
\* ")" themselves.
HasShape(toks, shape) ==
    /\ Len(toks) = Len(shape)
    /\ \A i \in 1..Len(shape) :
           CASE shape[i] = "p" -> toks[i].Type \in {BANG, MINUS}
             [] shape[i] = "b" -> toks[i].Literal \in BinaryOperators
             [] shape[i] = "i" -> toks[i].Type = IDENT
             [] OTHER -> toks[i].Type = shape[i]

\* An operand of a chain that is written with the given text.
Operand(text) == [Type |-> IDENT, Literal |-> text]

\* The text the claim gives for the lines of the shapes it speaks of.
PrefixGrouping(t) ==
    CASE HasShape(t, <<"p", "i", "b", "i">>) ->
           "((" \o t[1].Literal \o t[2].Literal \o ") " \o t[3].Literal \o " "
           \o t[4].Literal \o ")"
      [] HasShape(t, <<"i", "b", "p", "i">>) ->
           "(" \o t[1].Literal \o " " \o t[2].Literal \o " (" \o t[3].Literal
           \o t[4].Literal \o "))"
      [] HasShape(t, <<"p", "p", "i">>) ->
           "(" \o t[1].Literal \o "(" \o t[2].Literal \o t[3].Literal \o "))"
      [] HasShape(t, <<"p", "i", "(", "i", ")">>) ->
           "(" \o t[1].Literal \o t[2].Literal \o "(" \o t[4].Literal \o "))"
      [] HasShape(t, <<"p", "i", "(", "i", ")", "b", "i">>) ->
           "((" \o t[1].Literal \o t[2].Literal \o "(" \o t[4].Literal \o ")) "
           \o t[6].Literal \o " " \o t[7].Literal \o ")"
      [] HasShape(t, <<"i", "b", "i", "(", "i", "b", "i", ")", "b", "i">>) ->
           Grouping(<<t[1], t[2],
                      Operand(t[3].Literal \o "((" \o t[5].Literal \o " " \o t[6].Literal
                              \o " " \o t[7].Literal \o "))"),
                      t[9], t[10]>>, 1, 5)
      [] OTHER -> "none"

\* C15: a prefix operator applies to its operand before any binary operator
\* next to it and after a call on the operand; a call applies before any
\* binary operator next to it.  For every line of one of the shapes
\* `-a * b`, `a * -b`, `!-a`, `-f(x)`, `-f(x) * b`, `a + f(b * c) + d`,
\* ParseProgram records no error and string() is the text grouped that way.
C15_PrefixBetweenBinaryAndCall ==
    (Parsed /\ PrefixGrouping(TokensOf(line)) # "none") =>
        /\ Errors(p) = <<>>
        /\ String(program) = PrefixGrouping(TokensOf(line))

C15_Witness ==
    /\ Parsed
    /\ line = "-f(x) * b"
    /\ String(program) = "((-f(x)) * b)"

-----------------------------------------------------------------------------
(* C16: the optional semicolon that ends a statement                       *)

\* The parser is on the last token of the text and nothing follows it.
AtLastTokenOf(q, text) ==
    /\ q.curToken = TokensOf(text)[Len(TokensOf(text))]
    /\ q.peekToken.Type = EOF

\* C16: parseStatement on a well-formed statement without its semicolon
\* records no error and stops on the statement's last token; on the same
\* statement closed by `;` it records no error, returns a structurally equal
\* node and stops on the `;`; and when a statement follows the `;`, it stops
\* on the `;` with the first token of that statement as the peek token.
C16_OptionalSemicolon ==
    (last.op = "parseStatement" /\ line \in StatementTexts) =>
        /\ Errors(p) = <<>>
        /\ ~IsNil(last.n)
        /\ AtLastTokenOf(p, line)
        /\ Bind(parseStatement(New(LexerNew(line \o ";"))), LAMBDA r :
               /\ Errors(r.p) = <<>>
               /\ EqualNode(r.n, last.n)
               /\ r.p.curToken.Type = SEMICOLON
               /\ AtLastTokenOf(r.p, line \o ";"))
        /\ Bind(parseStatement(New(LexerNew(line \o "; z"))), LAMBDA r :
               /\ Errors(r.p) = <<>>
               /\ EqualNode(r.n, last.n)
               /\ r.p.curToken.Type = SEMICOLON
               /\ r.p.peekToken = Token(IDENT, "z"))

\* parseStatement has stopped on the `}` of a let whose value is a function.
C16_Witness ==
    /\ last.op = "parseStatement"
    /\ line = "let f = fn(a, b) { a + b }"
    /\ last.n.kind = "LetStatement"
    /\ p.curToken.Type = RBRACE
    /\ p.peekToken.Type = EOF

-----------------------------------------------------------------------------
(* C17: a block ends on `}` or at the end of the input                     *)

RECURSIVE PlaceFrom(_, _, _)
\* The first place k, from the k-th token on (l is the lexer before it), at
\* which q stands: its current token is the k-th token, its peek token the
\* next one, and its lexer the lexer behind that; 0 if q stands nowhere.
PlaceFrom(q, l, k) ==
    Bind(NextToken(l), LAMBDA a :
    Bind(NextToken(a.l), LAMBDA b :
        IF q.curToken = a.tok /\ q.peekToken = b.tok /\ q.l = b.l THEN k
        ELSE IF a.tok.Type = EOF THEN 0
        ELSE PlaceFrom(q, a.l, k + 1)))

\* The place of the current token of q in the token stream of its input;
\* every EOF counts as the place after the last token.
CurIndex(q) == PlaceFrom(q, LexerNew(q.l.input), 1)

RECURSIVE Closes(_, _, _)
\* The place of the `}` that, counting braces from place i on at nesting
\* depth, closes the block; the place after the last token if there is none.
Closes(toks, i, depth) ==
    CASE i > Len(toks) -> i
      [] toks[i].Type = LBRACE -> Closes(toks, i + 1, depth + 1)
      [] toks[i].Type = RBRACE ->
           IF depth = 1 THEN i ELSE Closes(toks, i + 1, depth - 1)
      [] OTHER -> Closes(toks, i + 1, depth)

\* The turn for a line with an unclosed block: no parse error, the program
\* of the line with the `}` added, and that program is evaluated.
UnclosedIsEvaluated ==
    (line \in UnclosedLines /\ pc \in {"parsed", "turn done"}) =>
        /\ Errors(p) = <<>>
        /\ Bind(ParseProgram(New(LexerNew(line \o " }"))), LAMBDA r :
               Errors(r.p) = <<>> /\ EqualNode(r.n, program))
        /\ (pc = "turn done" => evalCalls = 1 /\ out # "parse errors")

\* parseBlockStatement that stops at the end of the input gives the block,
\* and as many errors, as on the same text with a `}` added.
UnclosedBlockAsClosed ==
    (last.op = "parseBlockStatement" /\ curTokenIs(p, EOF)) =>
        Bind(parseBlockStatement(New(LexerNew(line \o " }"))), LAMBDA r :
            /\ Len(Errors(r.p)) = Len(Errors(p))
            /\ EqualNode(r.n, last.n))

\* C17 as stated: parseBlockStatement returns with the current token on the
\* `}` that matches the `{` of the block or on EOF, and a line whose block is
\* not closed parses without error and is evaluated like the closed line.
C17_BlockEndsAtMatchingBrace ==
    /\ last.op = "parseBlockStatement" =>
           \/ curTokenIs(p, EOF)
           \/ CurIndex(p) = Closes(TokensOf(line), CurIndex(last.before) + 1, 1)
    /\ UnclosedIsEvaluated
    /\ UnclosedBlockAsClosed

\* C17 amended: parseBlockStatement returns with the current token on a `}`
\* or on EOF and behind the `{` of the block, and a line whose block is not
\* closed parses without error and is evaluated like the closed line.
C17_BlockEndsAtBraceOrEOF ==
    /\ last.op = "parseBlockStatement" =>
           /\ p.curToken.Type \in {RBRACE, EOF}
           /\ CurIndex(p) > CurIndex(last.before)
    /\ UnclosedIsEvaluated
    /\ UnclosedBlockAsClosed

\* The line `if (x) { y` has been parsed without error and evaluated.
C17_Witness ==
    /\ pc = "turn done"
    /\ line = "if (x) { y"
    /\ Errors(p) = <<>>
    /\ evalCalls = 1

-----------------------------------------------------------------------------
(* C18: the statement loops advance and ParseProgram terminates            *)

\* An iteration of the loop of ParseProgram or of parseBlockStatement has run.
IterationDone ==
    last.op \in {"ParseProgram iteration", "parseBlockStatement iteration"}

\* Every iteration of the two statement loops leaves the current token at
\* least one place further in the token stream, no operation of the parser
\* moves the current token or the lexer backwards, and the current token
\* never lies behind the first EOF.
CursorAdvances ==
    /\ IterationDone => CurIndex(p) >= CurIndex(last.before) + 1
    /\ last.op \notin {"none", "New"} =>
           /\ CurIndex(p) >= CurIndex(last.before)
           /\ p.l.position >= last.before.l.position
    /\ pc # "start" => CurIndex(p) <= Len(TokensOf(line)) + 1

\* The loops, taken iteration by iteration, give what the operations give.
LoopsGiveTheSame ==
    /\ Parsed =>
           Bind(ParseProgram(New(LexerNew(line))), LAMBDA r :
               r.p = p /\ EqualNode(r.n, program))
    /\ pc = "block" =>
           Bind(parseBlockStatement(New(LexerNew(line))), LAMBDA r :
               r.p = p /\ EqualNode(r.n, last.n))

\* C18: on every line, well-formed or not, each iteration of the statement
\* loops of ParseProgram and parseBlockStatement advances the cursor by at
\* least one token, the cursor never moves backwards, and ParseProgram (and
\* parseBlockStatement) once in its loop returns.
C18_ParseProgramTerminates ==
    /\ [](CursorAdvances /\ LoopsGiveTheSame)
    /\ (pc = "program loop") ~> Parsed
    /\ (pc = "block loop") ~> (pc = "block")

\* An iteration of ParseProgram on a line that does not parse has advanced
\* the cursor and the loop goes on.
C18_Witness ==
    /\ last.op = "ParseProgram iteration"
    /\ line = "let x 5;"
    /\ Len(Errors(p)) > 0
    /\ ~curTokenIs(p, EOF)
    /\ CurIndex(p) > CurIndex(last.before)

-----------------------------------------------------------------------------
(* C19: a program parsed without errors is complete                        *)

\* The children a node of this kind cannot do without (the alternative of an
\* if expression is the one child that may be missing).
Required(n) ==
    CASE n.kind \in {"Program", "BlockStatement"} -> n.Statements
      [] n.kind = "LetStatement" -> <<n.Name, n.Value>>
      [] n.kind = "ReturnStatement" -> <<n.ReturnValue>>
      [] n.kind = "ExpressionStatement" -> <<n.Expression>>
      [] n.kind = "PrefixExpression" -> <<n.Right>>
      [] n.kind = "InfixExpression" -> <<n.Left, n.Right>>
      [] n.kind = "IfExpression" -> <<n.Condition, n.Consequence>>
      [] n.kind = "FunctionLiteral" -> n.Parameters.elems \o <<n.Body>>
      [] n.kind = "CallExpression" -> <<n.Function>> \o n.Arguments.elems
      [] OTHER -> <<>>

\* The list a function literal or a call holds is there (it may be empty).
HasItsList(n) ==
    CASE n.kind = "FunctionLiteral" -> ~n.Parameters.isNil
      [] n.kind = "CallExpression" -> ~n.Arguments.isNil
      [] OTHER -> TRUE

\* n is there, and no node under it lacks a required child or its list.
Complete(n) ==
    /\ ~IsNil(n)
    /\ \A i \in 1..Len(Nodes(n)) :
           LET m == Nodes(n)[i]
           IN  ~IsNil(m) =>
                   /\ HasItsList(m)
                   /\ \A k \in 1..Len(Required(m)) : ~IsNil(Required(m)[k])

\* C19: when ParseProgram leaves Errors() empty, the program is complete (no
\* nil statement, no node without a required child or list), String() on it
\* does not panic, and the REPL evaluates it.
C19_NoErrorsThenComplete ==
    (pc \in {"parsed", "turn done"} /\ Errors(p) = <<>>) =>
        /\ Complete(program)
        /\ ~Panics(program)
        /\ (pc = "turn done" => evalCalls = 1 /\ out # "parse errors")

\* A program with a let, a function literal and a call has been parsed
\* without errors and evaluated.
C19_Witness ==
    /\ pc = "turn done"
    /\ line = "let f = fn(a, b) { a + b; }; f(2, 3);"
    /\ Errors(p) = <<>>
    /\ Len(program.Statements) = 2
    /\ Complete(program)

-----------------------------------------------------------------------------
(* C20: the current and the peek token are neighbours in the token stream  *)

RECURSIVE LexerAfter(_, _)
\* The lexer of a text after k tokens have been taken from it.
LexerAfter(text, k) ==
    IF k = 0 THEN LexerNew(text) ELSE NextToken(LexerAfter(text, k - 1)).l

\* The k-th token the lexer of a text gives: its tokens, then EOF for ever.
StreamAt(text, k) == NextToken(LexerAfter(text, k - 1)).tok

\* q reads text, and for some k its current token is the k-th of the stream,
\* its peek token the next one, and the lexer has given out exactly these
\* k + 1.
LookAhead(q, text) ==
    /\ q.l.input = text
    /\ CurIndex(q) >= 1

\* C20: the fresh parser holds the first two tokens of the stream; after any
\* operations the current and the peek token are the k-th and (k+1)-th of the
\* stream and the lexer has given out k + 1 tokens; nextToken moves k on by
\* one (the peek token becomes current, one token is read), and no operation
\* moves k back, so no token is skipped or read twice.
C20_TwoTokenLookAhead ==
    /\ LookAhead(p, line)
    /\ last.op = "New" =>
           /\ p.curToken = StreamAt(line, 1)
           /\ p.peekToken = StreamAt(line, 2)
    /\ last.op = "nextToken" =>
           /\ p.curToken = last.before.peekToken
           /\ p.peekToken = NextToken(last.before.l).tok
           /\ p.l = NextToken(last.before.l).l
           /\ CurIndex(p) = CurIndex(last.before) + 1
    /\ last.op \notin {"none", "New"} =>
           /\ LookAhead(last.before, line)
           /\ CurIndex(p) >= CurIndex(last.before)

\* Two nextToken calls after construction: the parser stands on the `=` of a
\* let statement with the value as its peek token.
C20_Witness ==
    /\ last.op = "nextToken"
    /\ line = "let x = 5;"
    /\ p.curToken = Token(ASSIGN, "=")
    /\ p.peekToken = Token(INT, "5")
    /\ CurIndex(p) = 3

=============================================================================
